---- MODULE Spec2Model ----
(***************************************************************************)
(* CardMan: the OpenAI helper functions of the front end.                  *)
(*                                                                         *)
(*   convertAIResponseToCardData  reshapes the model's answer into a card  *)
(*                                record (synchronous, one action);        *)
(*   recommendBestCard /          format the card list into a summary and  *)
(*   recommendCardFromImage       call the model;                          *)
(*   searchCardWithOpenAI /       call the model and parse its answer.     *)
(*                                                                         *)
(* A JavaScript string is a sequence of one-character strings.  A          *)
(* JavaScript number n is [nan, int, frac]: NaN, or the non-negative       *)
(* decimal int.frac with frac its fractional digits, no trailing zero.     *)
(***************************************************************************)
EXTENDS Integers, Sequences, FiniteSets, TLC

VARIABLES
    passed,       \* the answer object as the caller passed it (snapshot)
    aiResponse,   \* the answer object itself (convert may assign to it)
    outcome,      \* "pending" | "returned" | "thrown" of the convert call
    result,       \* the record convert returned
    error,        \* the error convert threw
    console,      \* console.log / console.warn calls of the convert call
    prev,         \* card_name and card_id of the previous returned conversion
    cardList,     \* the cardList argument of the formatting step
    formattedCardList, \* the summary built from cardList
    phase,        \* "start" | "converted" | "formatted"
    pc,           \* per invocation of a remote operation: where it is
    op,           \* per invocation: which remote operation
    requests,     \* per invocation: the fetch calls it has issued
    response,     \* per invocation: what the transport delivered
    settled       \* per invocation: what the caller got

convertVars == <<passed, aiResponse, outcome, result, error, console, prev,
                 cardList, formattedCardList, phase>>
remoteVars == <<pc, op, requests, response, settled>>
vars == <<passed, aiResponse, outcome, result, error, console, prev,
          cardList, formattedCardList, phase, pc, op, requests, response,
          settled>>

-----------------------------------------------------------------------------
(* Bounds of the model.                                                    *)

MaxNameLen == 3
MaxRateLen == 3
MaxEntries == 2
MaxCards == 2
NumCalls == 2

-----------------------------------------------------------------------------
(* Characters and strings.                                                 *)

Min(a, b) == IF a < b THEN a ELSE b

UpperCase == <<"A", "B", "C", "D", "E", "F", "G", "H", "I", "J", "K", "L", "M",
               "N", "O", "P", "Q", "R", "S", "T", "U", "V", "W", "X", "Y", "Z",
               "E-acute">>
LowerCase == <<"a", "b", "c", "d", "e", "f", "g", "h", "i", "j", "k", "l", "m",
               "n", "o", "p", "q", "r", "s", "t", "u", "v", "w", "x", "y", "z",
               "e-acute">>
Digits == <<"0", "1", "2", "3", "4", "5", "6", "7", "8", "9">>

\* the regex classes a-z, 0-9 (\d) and \s
AtoZ == {LowerCase[i] : i \in 1..26}
DigitChars == {Digits[i] : i \in 1..10}
SpaceChars == {" ", "\t"}

\* String.prototype.toLowerCase, one character at a time
ToLowerChar(c) ==
    IF \E i \in 1..Len(UpperCase) : UpperCase[i] = c
    THEN LowerCase[CHOOSE i \in 1..Len(UpperCase) : UpperCase[i] = c]
    ELSE c

toLowerCase(s) == [i \in 1..Len(s) |-> ToLowerChar(s[i])]

\* .replace(/[^a-z0-9\s]/g, '')
IsKept(c) == c \in AtoZ \cup DigitChars \cup SpaceChars
StripSpecial(s) == SelectSeq(s, IsKept)

\* .replace(/\s+/g, '-'): every maximal run of whitespace becomes one hyphen
RECURSIVE HyphenateFrom(_, _)
HyphenateFrom(s, i) ==
    IF i > Len(s) THEN <<>>
    ELSE IF s[i] \in SpaceChars
         THEN IF i > 1 /\ s[i - 1] \in SpaceChars
              THEN HyphenateFrom(s, i + 1)
              ELSE <<"-">> \o HyphenateFrom(s, i + 1)
         ELSE <<s[i]>> \o HyphenateFrom(s, i + 1)

HyphenateSpaces(s) == HyphenateFrom(s, 1)

\* .substring(0, n)
substring0(s, n) == SubSeq(s, 1, Min(n, Len(s)))

\* a variant without toLowerCase
SlugNoLower(s) == HyphenateSpaces(StripSpecial(s))
\* the chain of lines 186-188 (and of 166-168, before the cut)
Slug(s) == HyphenateSpaces(StripSpecial(toLowerCase(s)))

KeyCap == 30

\* lines 166-169
CategoryKey(s) == substring0(Slug(s), KeyCap)

-----------------------------------------------------------------------------
(* Numbers: parseFloat, toFixed(2), Number.                                *)

NaN == [nan |-> TRUE, int |-> 0, frac |-> <<>>]
Num(i, f) == [nan |-> FALSE, int |-> i, frac |-> f]

DigitVal(c) == (CHOOSE i \in 1..10 : Digits[i] = c) - 1

\* length of the run of characters of class cs that starts at s[i]
RECURSIVE RunLen(_, _, _)
RunLen(s, i, cs) ==
    IF i > Len(s) \/ s[i] \notin cs THEN 0 ELSE 1 + RunLen(s, i + 1, cs)

\* rate.toString().match(/[\d.]+/): the first maximal run of digits and dots,
\* <<>> standing for null (no match)
RateToken(s) ==
    IF \E i \in 1..Len(s) : s[i] \in DigitChars \cup {"."}
    THEN LET i == CHOOSE j \in 1..Len(s) :
                    /\ s[j] \in DigitChars \cup {"."}
                    /\ \A k \in 1..(j - 1) : s[k] \notin DigitChars \cup {"."}
         IN SubSeq(s, i, i + RunLen(s, i, DigitChars \cup {"."}) - 1)
    ELSE <<>>

RECURSIVE DigitsValue(_)
DigitsValue(ds) ==
    IF ds = <<>> THEN 0
    ELSE 10 * DigitsValue(SubSeq(ds, 1, Len(ds) - 1)) + DigitVal(ds[Len(ds)])

RECURSIVE TrimZeros(_)
TrimZeros(f) ==
    IF f # <<>> /\ f[Len(f)] = 0 THEN TrimZeros(SubSeq(f, 1, Len(f) - 1)) ELSE f

\* parseFloat of a string of digits and dots: the longest prefix
\* digits [. digits] that holds a digit, NaN when there is none
parseFloat(s) ==
    LET n == RunLen(s, 1, DigitChars)
        m == IF n < Len(s) /\ s[n + 1] = "."
             THEN RunLen(s, n + 2, DigitChars) ELSE 0
    IN IF n = 0 /\ m = 0 THEN NaN
       ELSE Num(DigitsValue(SubSeq(s, 1, n)),
                TrimZeros([k \in 1..m |-> DigitVal(s[n + 1 + k])]))

RECURSIVE IntToString(_)
IntToString(n) ==
    IF n < 10 THEN <<Digits[n + 1]>>
    ELSE IntToString(n \div 10) \o <<Digits[(n % 10) + 1]>>

FracDigit(x, k) == IF k <= Len(x.frac) THEN x.frac[k] ELSE 0

\* Number.prototype.toFixed(2): "NaN", or the number rounded to hundredths
\* with exactly two decimals.  (An exact tie, a third decimal 5 with nothing
\* after it, is decided in JavaScript by the binary value; RateChars holds
\* no 5 and the sample rates have one decimal, so no drawn input is a tie.)
toFixed2(x) ==
    IF x.nan THEN <<"N", "a", "N">>
    ELSE LET h == 10 * FracDigit(x, 1) + FracDigit(x, 2)
                  + (IF FracDigit(x, 3) >= 5 THEN 1 ELSE 0)
             i == x.int + (h \div 100)
         IN IntToString(i) \o <<".">>
            \o <<Digits[((h % 100) \div 10) + 1], Digits[(h % 10) + 1]>>

\* Number(string) of what toFixed printed
NumberOf(s) == IF s = <<"N", "a", "N">> THEN NaN ELSE parseFloat(s)

-----------------------------------------------------------------------------
(* JavaScript values of the model's answer.  A scalar is [t, v]: its type  *)
(* and, for a string, its characters; for a number, its String() form.     *)

Undefined == [t |-> "undefined", v |-> <<>>]
Str(s) == [t |-> "string", v |-> s]
NumLit(s) == [t |-> "number", v |-> s]

\* ToBoolean: undefined, "" and 0 are falsy
Truthy(x) ==
    CASE x.t = "undefined" -> FALSE
      [] x.t = "string" -> x.v # <<>>
      [] x.t = "number" -> parseFloat(x.v) \notin {NaN, Num(0, <<>>)}

\* an element of cashback_categories: null, a number, or an object with
\* (possibly missing) category and rate
NullEntry == [t |-> "null", category |-> Undefined, rate |-> Undefined]
NumberEntry == [t |-> "number", category |-> Undefined, rate |-> Undefined]
Entry(c, r) == [t |-> "object", category |-> c, rate |-> r]

\* the cashback_categories property: an array of entries, or something else
Arr(items) == [t |-> "array", items |-> items]
NonArray(t) == [t |-> t, items |-> <<>>]

Answer(name, issuer, cats) ==
    [card_name |-> name, issuer |-> issuer, cashback_categories |-> cats]

NoError == [name |-> "none", message |-> "none"]
NoResult == [none |-> TRUE]
Err(name, message) == [name |-> name, message |-> message]
Log(level, message) == [level |-> level, message |-> message]

-----------------------------------------------------------------------------
(* convertAIResponseToCardData                                             *)

\* a variant that replaces only a missing cashback_categories
NormalizeNonArrayOnlyMissing(ai) ==
    IF ai.cashback_categories.t = "undefined"
    THEN [ai EXCEPT !.cashback_categories = Arr(<<>>)]
    ELSE ai
\* lines 151-154: the assignment to the answer object
NormalizeCategories(ai) ==
    IF ai.cashback_categories.t = "undefined" \/ ai.cashback_categories.t # "array"
    THEN [ai EXCEPT !.cashback_categories = Arr(<<>>)]
    ELSE ai

NeedsNormalizing(ai) ==
    ai.cashback_categories.t = "undefined" \/ ai.cashback_categories.t # "array"

\* a variant that keeps the value a key already has
SetPropertyKeepFirst(obj, key, value) ==
    IF \E i \in 1..Len(obj) : obj[i].key = key
    THEN obj
    ELSE Append(obj, [key |-> key, value |-> value])
\* cashbackCategories[categoryKey] = value: an object keeps its keys in
\* insertion order, and assigning to a key it has replaces the value in place
SetProperty(obj, key, value) ==
    IF \E i \in 1..Len(obj) : obj[i].key = key
    THEN [i \in 1..Len(obj) |->
             IF obj[i].key = key THEN [key |-> key, value |-> value] ELSE obj[i]]
    ELSE Append(obj, [key |-> key, value |-> value])

\* lines 171-180: the rate of an entry whose rate has String() form s
RateOf(s) ==
    LET rateMatch == RateToken(s)
        rateString == IF rateMatch # <<>> THEN rateMatch ELSE <<"0">>
        rate == parseFloat(rateString)
    IN NumberOf(toFixed2(rate))

\* a variant that drops the label
DescriptionOfRateOnly(cat) == cat.rate.v
\* line 181: `${cat.category} - ${cat.rate}`
DescriptionOf(cat) == cat.category.v \o <<" ", "-", " ">> \o cat.rate.v

\* lines 159-183: the callback of forEach on one element; acc is
\* [cashbackCategories, console, error]
CategoryCallback(cat, acc) ==
    IF cat.t = "null"
    THEN [acc EXCEPT !.error =
             Err("TypeError", "Cannot read properties of null (reading 'category')")]
    ELSE IF ~Truthy(cat.category) \/ ~Truthy(cat.rate)
    THEN [acc EXCEPT !.console = Append(@, Log("warn", "Skipping invalid category:"))]
    ELSE IF cat.category.t # "string"
    THEN [acc EXCEPT !.error =
             Err("TypeError", "cat.category.toLowerCase is not a function")]
    ELSE [acc EXCEPT !.cashbackCategories =
             SetProperty(@, CategoryKey(cat.category.v),
                         [rate |-> RateOf(cat.rate.v),
                          description |-> DescriptionOf(cat)])]

\* forEach stops at the first callback that throws
RECURSIVE ForEachCategory(_, _, _)
ForEachCategory(items, i, acc) ==
    IF i > Len(items) \/ acc.error # NoError THEN acc
    ELSE ForEachCategory(items, i + 1, CategoryCallback(items[i], acc))

Thrown(ai, err, log) ==
    [aiResponse |-> ai, outcome |-> "thrown", error |-> err,
     result |-> NoResult, console |-> log]

\* lines 151-199: what follows the two required-field checks
ConvertBody(ai, log0) ==
    LET log1 == IF NeedsNormalizing(ai)
                THEN Append(log0, Log("warn",
                       "Missing or invalid cashback_categories, using empty object"))
                ELSE log0
        ai1 == NormalizeCategories(ai)
    IN IF ai1.cashback_categories.t # "array"
       THEN Thrown(ai1, Err("TypeError",
                "aiResponse.cashback_categories.forEach is not a function"), log1)
       ELSE
       LET acc == ForEachCategory(ai1.cashback_categories.items, 1,
                      [cashbackCategories |-> <<>>, console |-> log1,
                       error |-> NoError])
       IN IF acc.error # NoError THEN Thrown(ai1, acc.error, acc.console)
          ELSE IF ai1.card_name.t # "string"
          THEN Thrown(ai1, Err("TypeError",
                   "aiResponse.card_name.toLowerCase is not a function"),
                   acc.console)
          ELSE [aiResponse |-> ai1, outcome |-> "returned", error |-> NoError,
                result |-> [card_id |-> Slug(ai1.card_name.v),
                            card_name |-> ai1.card_name.v,
                            bank |-> ai1.issuer.v,
                            card_type |-> "Credit Card",
                            cashback_categories |-> acc.cashbackCategories],
                console |-> Append(acc.console, Log("log", "Converted card data:"))]

\* a variant that checks the required fields after the rest has run
ConvertNormalizeFirst(ai) ==
    LET log0 == <<Log("log", "Converting AI response:")>>
        r == ConvertBody(ai, log0)
    IN IF ~Truthy(ai.card_name)
       THEN Thrown(r.aiResponse, Err("Error", "Missing card_name in AI response"),
                   r.console)
       ELSE IF ~Truthy(ai.issuer)
       THEN Thrown(r.aiResponse, Err("Error", "Missing issuer in AI response"),
                   r.console)
       ELSE r
\* lines 141-200
Convert(ai) ==
    LET log0 == <<Log("log", "Converting AI response:")>>
    IN IF ~Truthy(ai.card_name)
       THEN Thrown(ai, Err("Error", "Missing card_name in AI response"), log0)
       ELSE IF ~Truthy(ai.issuer)
       THEN Thrown(ai, Err("Error", "Missing issuer in AI response"), log0)
       ELSE ConvertBody(ai, log0)

-----------------------------------------------------------------------------
(* The card summary of recommendBestCard (lines 214-221) and of            *)
(* recommendCardFromImage (lines 282-289): the same expression twice.      *)

RECURSIVE Join(_, _)
Join(parts, sep) ==
    IF parts = <<>> THEN <<>>
    ELSE IF Len(parts) = 1 THEN parts[1]
    ELSE parts[1] \o sep \o Join(Tail(parts), sep)

NoCashbackInfo ==
    <<"N", "o", " ", "c", "a", "s", "h", "b", "a", "c", "k", " ", "i", "n", "f", "o">>

\* card.cashback_categories ? ... : ...  (a card may lack the property; an
\* object, empty or not, is truthy)
HasCategories(card) == "cashback_categories" \in DOMAIN card

\* `${value.description || key}`
EntryText(e) == IF e.value.description # <<>> THEN e.value.description ELSE e.key

CategoriesText(card) ==
    IF HasCategories(card)
    THEN Join([i \in 1..Len(card.cashback_categories) |->
                  EntryText(card.cashback_categories[i])], <<",", " ">>)
    ELSE NoCashbackInfo

\* `${card.card_name} (${card.bank}): ${categories}`
CardLine(card) ==
    card.card_name \o <<" ", "(">> \o card.bank \o <<")", ":", " ">>
        \o CategoriesText(card)

FormatCardList(cards) ==
    Join([i \in 1..Len(cards) |-> CardLine(cards[i])], <<"\n">>)

-----------------------------------------------------------------------------
(* The answers and card lists the operations are applied to.               *)

BoundedSeq(S, n) == UNION {[1..k -> S] : k \in 0..n}

\* an upper-case and a lower-case letter, a digit, whitespace, punctuation,
\* and a letter outside a-z
NameChars == {"A", "b", "7", " ", "-", "E-acute"}
\* digits, the decimal point, and characters that are neither
RateChars == {"3", "7", ".", "%", "-"}

Chase == <<"C", "h", "a", "s", "e">>
Citi == <<"C", "i", "t", "i">>
Amex == <<"A", "m", "e", "x">>
Dining == <<"D", "i", "n", "i", "n", "g">>
GasAndFuel == <<"G", "a", "s", " ", "&", " ", "F", "u", "e", "l">>
LongLabel ==
    <<"O", "n", "l", "i", "n", "e", " ", "S", "h", "o", "p", "p", "i", "n", "g",
      " ", "A", "n", "d", " ", "S", "t", "r", "e", "a", "m", "i", "n", "g", " ",
      "S", "e", "r", "v", "i", "c", "e", "s">>
\* a label that differs from LongLabel only after its 30th character
LongLabelToo ==
    <<"O", "n", "l", "i", "n", "e", " ", "S", "h", "o", "p", "p", "i", "n", "g",
      " ", "A", "n", "d", " ", "S", "t", "r", "e", "a", "m", "i", "n", "g", " ",
      "S", "u", "b", "s", "c", "r", "i", "p", "t", "i", "o", "n", "s">>
ChaseFreedomUnlimited ==
    <<"C", "h", "a", "s", "e", " ", "F", "r", "e", "e", "d", "o", "m", " ",
      "U", "n", "l", "i", "m", "i", "t", "e", "d">>

\* the mocked model reply of the end-to-end example
ChaseAnswer ==
    Answer(Str(ChaseFreedomUnlimited), Str(Chase),
           Arr(<<Entry(Str(Dining), Str(<<"3", "%">>))>>))

SampleRates ==
    {Str(<<"3", ".", "5", "%", " ", "c", "a", "s", "h", "b", "a", "c", "k">>),
     Str(<<"N", ".", "A", ".">>), Str(<<"u", "p", " ", "t", "o", " ", "3", "%">>),
     NumLit(<<"2">>), NumLit(<<"0">>)}

SampleEntries ==
    {NullEntry, NumberEntry,
     Entry(Str(Dining), Str(<<"3", "%">>)),
     Entry(Str(Dining), Undefined),
     Entry(Undefined, Str(<<"3", "%">>)),
     Entry(NumLit(<<"7">>), Str(<<"2", "%">>)),
     Entry(Str(GasAndFuel), Str(<<"1", ".", "5", "%">>)),
     Entry(Str(toLowerCase(Dining)), Str(<<"4", "%">>)),
     Entry(Str(LongLabel), Str(<<"2", "%">>)),
     Entry(Str(LongLabelToo), Str(<<"7", "%">>))}

\* card names of every shape, each with one well-formed category
NameAnswers ==
    {Answer(Str(n), Str(Chase), Arr(<<Entry(Str(Dining), Str(<<"3", "%">>))>>)) :
        n \in BoundedSeq(NameChars, MaxNameLen)}

\* rates of every shape, each the rate of one category
RateAnswers ==
    {Answer(Str(Amex), Str(Chase), Arr(<<Entry(Str(Dining), r)>>)) :
        r \in {Str(x) : x \in BoundedSeq(RateChars, MaxRateLen)} \cup SampleRates}

\* answers of every structure: required fields present or not,
\* cashback_categories missing, not an array, or an array of entries
ShapeAnswers ==
    {Answer(n, i, c) :
        n \in {Undefined, Str(Amex)}, i \in {Undefined, Str(Chase)},
        c \in {NonArray("undefined"), NonArray("string"), NonArray("number"),
               NonArray("object")}
              \cup {Arr(e) : e \in BoundedSeq(SampleEntries, MaxEntries)}}

Answers == NameAnswers \cup RateAnswers \cup ShapeAnswers \cup {ChaseAnswer}

\* a card read back from storage that has no cashback_categories property
StoredCard ==
    [card_id |-> <<"l", "e", "g", "a", "c", "y">>,
     card_name |-> <<"L", "e", "g", "a", "c", "y">>,
     bank |-> Citi, card_type |-> "Credit Card"]

NoPrev == [card_name |-> <<>>, card_id |-> <<>>]

Calls == 1..NumCalls
Operations == {"searchCardWithOpenAI", "analyzeCardImage", "recommendBestCard",
               "recommendCardFromImage"}
NoResponse == [kind |-> "none", status |-> 0, body |-> "none"]
NoSettlement == [kind |-> "none", name |-> "none", status |-> 0, message |-> "none"]

RemoteIdle ==
    /\ pc = [i \in Calls |-> "idle"]
    /\ op = [i \in Calls |-> "none"]
    /\ requests = [i \in Calls |-> <<>>]
    /\ response = [i \in Calls |-> NoResponse]
    /\ settled = [i \in Calls |-> NoSettlement]

ConvertStart(answer) ==
    /\ passed = answer
    /\ aiResponse = answer
    /\ outcome = "pending"
    /\ result = NoResult
    /\ error = NoError
    /\ console = <<>>
    /\ prev = NoPrev
    /\ cardList = <<>>
    /\ formattedCardList = <<>>
    /\ phase = "start"

Init ==
    /\ \E answer \in Answers : ConvertStart(answer)
    /\ RemoteIdle

-----------------------------------------------------------------------------
(* Actions on the card record.                                             *)

Apply(answer) ==
    LET r == Convert(answer)
    IN /\ aiResponse' = r.aiResponse
       /\ outcome' = r.outcome
       /\ result' = r.result
       /\ error' = r.error
       /\ console' = r.console

\* the caller hands the parsed answer to convertAIResponseToCardData
ConvertCall ==
    /\ phase = "start"
    /\ Apply(aiResponse)
    /\ phase' = "converted"
    /\ UNCHANGED <<passed, prev, cardList, formattedCardList>>
    /\ UNCHANGED remoteVars

\* the caller converts a second answer that names the same card
ConvertAgain ==
    /\ phase = "converted"
    /\ outcome = "returned"
    /\ prev = NoPrev
    /\ LET answer == Answer(passed.card_name, Str(Citi), Arr(<<>>))
       IN /\ passed' = answer
          /\ Apply(answer)
    /\ prev' = [card_name |-> result.card_name, card_id |-> result.card_id]
    /\ UNCHANGED <<cardList, formattedCardList, phase>>
    /\ UNCHANGED remoteVars

\* the first statement of recommendBestCard / recommendCardFromImage, on a
\* list of the stored card and the record just converted
FormatCards ==
    /\ phase = "converted"
    /\ \E cards \in BoundedSeq({StoredCard} \cup
                                (IF outcome = "returned" THEN {result} ELSE {}),
                               MaxCards) :
          /\ cardList' = cards
          /\ formattedCardList' = FormatCardList(cards)
    /\ phase' = "formatted"
    /\ UNCHANGED <<passed, aiResponse, outcome, result, error, console, prev>>
    /\ UNCHANGED remoteVars

Next == ConvertCall \/ ConvertAgain \/ FormatCards

Spec == Init /\ [][Next]_vars

-----------------------------------------------------------------------------
(* The four remote operations.  Each is one async function of the same     *)
(* shape: build the request, await fetch, await response.json(), parse the *)
(* content; its steps are the stretches of code between two awaits.        *)

Statuses == {200, 401, 500}
Ok(status) == status \in 200..299

\* what the body of a response can be
Bodies == {"not JSON", "null", "{error: {message}}", "{}",
           "{choices: [{message: {content: not JSON}}]}",
           "{choices: [{message: {content: JSON}}]}"}

Endpoint == "https://api.openai.com/v1/chat/completions"

\* the user message of the request (lines 36, 101, 245, 317); the two
\* recommending operations are called with the stored card as their list
UserContent(o) ==
    IF o \in {"recommendBestCard", "recommendCardFromImage"}
    THEN FormatCardList(<<StoredCard>>)
    ELSE <<>>

Request(o) ==
    [url |-> Endpoint, method |-> "POST", operation |-> o, content |-> UserContent(o)]

Returned == [kind |-> "returned", name |-> "none", status |-> 0, message |-> "none"]
\* an error the caller catches; status is the response status its message
\* quotes, 0 when the message quotes none
Raised(name, status, message) ==
    [kind |-> "thrown", name |-> name, status |-> status, message |-> message]

\* lines 43-47 (117-121, 252-256, 333-337) once response.json() settles
ErrorOf(status, body) ==
    CASE body = "not JSON" ->
            Raised("SyntaxError", 0, "Unexpected token in JSON")
      [] body = "null" ->
            Raised("TypeError", 0, "Cannot read properties of null (reading 'error')")
      [] body = "{error: {message}}" ->
            Raised("Error", status, "upstream message")
      [] OTHER ->
            Raised("Error", status, "Unknown error")

\* lines 49-54 (123-128, 258-262, 339-343) once response.json() settles
AnswerOf(body) ==
    CASE body = "not JSON" ->
            Raised("SyntaxError", 0, "Unexpected token in JSON")
      [] body = "null" ->
            Raised("TypeError", 0, "Cannot read properties of null (reading 'choices')")
      [] body \in {"{error: {message}}", "{}"} ->
            Raised("TypeError", 0, "Cannot read properties of undefined (reading '0')")
      [] body = "{choices: [{message: {content: not JSON}}]}" ->
            Raised("SyntaxError", 0, "Unexpected token in JSON")
      [] OTHER -> Returned

\* the call: everything up to the first await, the fetch issued
Invoke(i) ==
    /\ pc[i] = "idle"
    /\ \E o \in Operations :
          /\ op' = [op EXCEPT ![i] = o]
          /\ requests' = [requests EXCEPT ![i] = Append(@, Request(o))]
    /\ pc' = [pc EXCEPT ![i] = "fetch"]
    /\ UNCHANGED <<response, settled>>
    /\ UNCHANGED convertVars

\* fetch rejects (no connection): the catch block logs and rethrows
FetchRejects(i) ==
    /\ pc[i] = "fetch"
    /\ response' = [response EXCEPT ![i] =
                       [kind |-> "rejected", status |-> 0, body |-> "none"]]
    /\ settled' = [settled EXCEPT ![i] = Raised("TypeError", 0, "Failed to fetch")]
    /\ pc' = [pc EXCEPT ![i] = "done"]
    /\ UNCHANGED <<op, requests>>
    /\ UNCHANGED convertVars

\* fetch resolves with a response; the function awaits response.json()
FetchResolves(i) ==
    /\ pc[i] = "fetch"
    /\ \E status \in Statuses :
          /\ response' = [response EXCEPT ![i] =
                             [kind |-> "response", status |-> status, body |-> "unread"]]
          /\ pc' = [pc EXCEPT ![i] = IF Ok(status) THEN "json" ELSE "errorJson"]
    /\ UNCHANGED <<op, requests, settled>>
    /\ UNCHANGED convertVars

\* a variant that calls fetch again after a non-2xx response
ErrorBodySettlesRetrying(i) ==
    /\ pc[i] = "errorJson"
    /\ Len(requests[i]) < 2
    /\ \E body \in Bodies :
          response' = [response EXCEPT ![i].body = body]
    /\ requests' = [requests EXCEPT ![i] = Append(@, Request(op[i]))]
    /\ pc' = [pc EXCEPT ![i] = "fetch"]
    /\ UNCHANGED <<op, settled>>
    /\ UNCHANGED convertVars
\* !response.ok: response.json() settles, the function throws
ErrorBodySettles(i) ==
    /\ pc[i] = "errorJson"
    /\ \E body \in Bodies :
          /\ response' = [response EXCEPT ![i].body = body]
          /\ settled' = [settled EXCEPT ![i] = ErrorOf(response[i].status, body)]
    /\ pc' = [pc EXCEPT ![i] = "done"]
    /\ UNCHANGED <<op, requests>>
    /\ UNCHANGED convertVars

\* response.ok: response.json() settles, the content is parsed and returned
BodySettles(i) ==
    /\ pc[i] = "json"
    /\ \E body \in Bodies :
          /\ response' = [response EXCEPT ![i].body = body]
          /\ settled' = [settled EXCEPT ![i] = AnswerOf(body)]
    /\ pc' = [pc EXCEPT ![i] = "done"]
    /\ UNCHANGED <<op, requests>>
    /\ UNCHANGED convertVars

InitRemote ==
    /\ ConvertStart(ChaseAnswer)
    /\ RemoteIdle

NextRemote ==
    \E i \in Calls :
        \/ Invoke(i)
        \/ FetchRejects(i)
        \/ FetchResolves(i)
        \/ ErrorBodySettles(i)
        \/ BodySettles(i)

SpecRemote == InitRemote /\ [][NextRemote]_vars

-----------------------------------------------------------------------------
(* Properties.                                                             *)

Done(i) == pc[i] = "done"
HasRequired(ai) == Truthy(ai.card_name) /\ Truthy(ai.issuer)
Converted == phase # "start"

\* C1: whenever the transport response of a remote operation has a non-2xx
\* status, the operation fails with an error that carries that status,
\* whatever the body of the error response is.
C1_NonOkCarriesStatus ==
    \A i \in Calls :
        (Done(i) /\ response[i].kind = "response" /\ ~Ok(response[i].status))
            => /\ settled[i].kind = "thrown"
               /\ settled[i].status = response[i].status

\* C2: an answer that lacks card_name or issuer makes the conversion fail with
\* the validation error before any normalization: no record, no category
\* entry processed or warned about, and the answer object left as passed in.
C2_MissingRequiredFailsFirst ==
    (Converted /\ ~HasRequired(passed))
        => /\ outcome = "thrown"
           /\ error = Err("Error", IF ~Truthy(passed.card_name)
                                   THEN "Missing card_name in AI response"
                                   ELSE "Missing issuer in AI response")
           /\ result = NoResult
           /\ aiResponse = passed
           /\ console = <<Log("log", "Converting AI response:")>>

C2_Witness ==
    /\ Converted
    /\ ~Truthy(passed.card_name)
    /\ passed.cashback_categories.t = "string"
    /\ outcome = "thrown"

\* C3: with card_name and issuer present the conversion never fails because
\* of a malformed cashback_categories entry: it returns a record.
C3_MalformedEntriesSkipped ==
    (Converted /\ HasRequired(passed)) => outcome = "returned"

\* the entries of the answer that the callback does not skip
Items == aiResponse.cashback_categories.items
Stored(i) ==
    /\ Items[i].t = "object"
    /\ Truthy(Items[i].category)
    /\ Truthy(Items[i].rate)
    /\ Items[i].category.t = "string"
\* entry i is the last one stored under its key
LastOfKey(i) ==
    /\ Stored(i)
    /\ \A j \in (i + 1)..Len(Items) :
          Stored(j) => CategoryKey(Items[j].category.v) # CategoryKey(Items[i].category.v)
Lookup(obj, key) == obj[CHOOSE k \in 1..Len(obj) : obj[k].key = key].value
HasKey(obj, key) == \E k \in 1..Len(obj) : obj[k].key = key

\* the first numeric token of a rate string as the specification means it:
\* digits with an optional decimal part, or a decimal part alone; 0 when the
\* string holds no digit
StartsNumber(s, j) ==
    \/ s[j] \in DigitChars
    \/ s[j] = "." /\ j < Len(s) /\ s[j + 1] \in DigitChars
FirstNumericValue(s) ==
    IF \E j \in 1..Len(s) : s[j] \in DigitChars
    THEN LET j == CHOOSE k \in 1..Len(s) :
                    StartsNumber(s, k) /\ \A l \in 1..(k - 1) : ~StartsNumber(s, l)
         IN NumberOf(toFixed2(parseFloat(SubSeq(s, j, Len(s)))))
    ELSE Num(0, <<>>)

\* C4: the rate stored for an entry that is not skipped is the value of the
\* first numeric token of its rate string, and 0 when the rate string holds no
\* digit (a '.' without a digit included).
C4_RateIsFirstNumericToken ==
    (Converted /\ outcome = "returned")
        => \A i \in 1..Len(Items) :
              LastOfKey(i)
                  => /\ HasKey(result.cashback_categories,
                               CategoryKey(Items[i].category.v))
                     /\ Lookup(result.cashback_categories,
                               CategoryKey(Items[i].category.v)).rate
                            = FirstNumericValue(Items[i].rate.v)

\* C5: every rate of a returned record is a non-negative number, never NaN,
\* with at most two decimal places.
C5_RatesAreCleanNumbers ==
    (Converted /\ outcome = "returned")
        => \A k \in 1..Len(result.cashback_categories) :
              LET rate == result.cashback_categories[k].value.rate
              IN /\ ~rate.nan
                 /\ rate.int >= 0
                 /\ Len(rate.frac) <= 2

\* C6: with card_name and issuer present and cashback_categories absent or not
\* an array, the conversion succeeds and the record's category mapping is
\* empty.
C6_NonArrayGivesEmptyMapping ==
    (Converted /\ HasRequired(passed) /\ passed.cashback_categories.t # "array")
        => /\ outcome = "returned"
           /\ result.cashback_categories = <<>>

C6_Witness ==
    /\ Converted
    /\ HasRequired(passed)
    /\ passed.cashback_categories.t = "string"
    /\ outcome = "returned"
    /\ result.cashback_categories = <<>>

Letters == {UpperCase[i] : i \in 1..Len(UpperCase)} \cup {LowerCase[i] : i \in 1..Len(LowerCase)}
AsciiLetters == {UpperCase[i] : i \in 1..26} \cup AtoZ

IdShape(wellFormedEnds) ==
    outcome = "returned"
        => /\ \A k \in 1..Len(result.card_id) :
                 result.card_id[k] \in AtoZ \cup DigitChars \cup {"-"}
           /\ (prev.card_name = result.card_name => prev.card_id = result.card_id)
           /\ (/\ result.card_name[1] \in wellFormedEnds
               /\ result.card_name[Len(result.card_name)] \in wellFormedEnds)
                  => \/ result.card_id = <<>>
                     \/ /\ result.card_id[1] # "-"
                        /\ result.card_id[Len(result.card_id)] # "-"

\* C7, as stated: the id is a function of the name alone, holds only lowercase
\* letters, digits and hyphens, and has no leading or trailing hyphen when the
\* name begins and ends with a letter or digit (any letter).
C7_IdWellFormedAnyLetter == IdShape(Letters \cup DigitChars)

\* C7, amended: the same, for names that begin and end with a letter of A-Z or
\* a-z or a digit; a letter outside A-Z and a-z is removed like punctuation, so
\* a name that begins with one followed by whitespace gets a leading hyphen.
C7_IdWellFormedAsciiEnds == IdShape(AsciiLetters \cup DigitChars)

C7_Witness ==
    /\ outcome = "returned"
    /\ prev.card_name = result.card_name
    /\ result.card_name = <<"A", " ", "b">>
    /\ result.card_id = <<"a", "-", "b">>

WellFormedAnswer(ai) ==
    /\ HasRequired(ai)
    /\ ai.card_name.t = "string"
    /\ ai.issuer.t = "string"
    /\ ai.cashback_categories.t = "array"
    /\ \A i \in 1..Len(ai.cashback_categories.items) :
          LET cat == ai.cashback_categories.items[i]
          IN /\ cat.t = "object"
             /\ cat.category.t = "string" /\ Truthy(cat.category)
             /\ Truthy(cat.rate)
             /\ ~RateOf(cat.rate.v).nan

ChaseId ==
    <<"c", "h", "a", "s", "e", "-", "f", "r", "e", "e", "d", "o", "m", "-",
      "u", "n", "l", "i", "m", "i", "t", "e", "d">>
ChaseRates ==
    <<[key |-> <<"d", "i", "n", "i", "n", "g">>,
       value |-> [rate |-> Num(3, <<>>),
                  description |-> <<"D", "i", "n", "i", "n", "g", " ", "-", " ", "3", "%">>]]>>

\* C8, as stated (id, name, issuer and category_rates read as the code's
\* card_id, card_name, bank and cashback_categories): for the example answer
\* the record is exactly these four fields.
C8_RecordAsSpecified ==
    (Converted /\ passed = ChaseAnswer)
        => /\ outcome = "returned"
           /\ result = [card_id |-> ChaseId, card_name |-> ChaseFreedomUnlimited,
                        bank |-> Chase, cashback_categories |-> ChaseRates]

\* C8, amended: the record holds card_id = slug of card_name, card_name and bank
\* unchanged, the constant card_type "Credit Card", and under each category's
\* key the numeric rate and the description "<category> - <rate>" of the last
\* entry with that key; for the example answer it is the five-field record.
C8_RecordAsBuilt ==
    (Converted /\ WellFormedAnswer(passed))
        => /\ outcome = "returned"
           /\ DOMAIN result = {"card_id", "card_name", "bank", "card_type",
                               "cashback_categories"}
           /\ result.card_id = Slug(passed.card_name.v)
           /\ result.card_name = passed.card_name.v
           /\ result.bank = passed.issuer.v
           /\ result.card_type = "Credit Card"
           /\ \A k \in 1..Len(result.cashback_categories) :
                 \E i \in 1..Len(Items) :
                     result.cashback_categories[k].key = CategoryKey(Items[i].category.v)
           /\ \A i \in 1..Len(Items) :
                 LastOfKey(i)
                     => /\ HasKey(result.cashback_categories,
                                  CategoryKey(Items[i].category.v))
                        /\ Lookup(result.cashback_categories,
                                  CategoryKey(Items[i].category.v))
                             = [rate |-> FirstNumericValue(Items[i].rate.v),
                                description |-> Items[i].category.v \o <<" ", "-", " ">>
                                                    \o Items[i].rate.v]
           /\ passed = ChaseAnswer
                 => result = [card_id |-> ChaseId,
                              card_name |-> ChaseFreedomUnlimited,
                              bank |-> Chase, card_type |-> "Credit Card",
                              cashback_categories |-> ChaseRates]

C8_Witness ==
    /\ phase = "converted"
    /\ passed = ChaseAnswer
    /\ outcome = "returned"
    /\ Len(result.cashback_categories) = 1

\* the lines of a summary
RECURSIVE SplitLines(_)
SplitLines(s) ==
    IF \E k \in 1..Len(s) : s[k] = "\n"
    THEN LET k == CHOOSE n \in 1..Len(s) :
                    s[n] = "\n" /\ \A m \in 1..(n - 1) : s[m] # "\n"
         IN <<SubSeq(s, 1, k - 1)>> \o SplitLines(SubSeq(s, k + 1, Len(s)))
    ELSE <<s>>

NoCategoryData(card) == ~HasCategories(card) \/ card.cashback_categories = <<>>

\* C9: in the summary every card with no category data, its mapping missing
\* or present but empty, gets the marker "No cashback info" in place of its
\* category descriptions.
C9_NoDataGetsMarker ==
    (phase = "formatted" /\ cardList # <<>>)
        => \A i \in 1..Len(cardList) :
              NoCategoryData(cardList[i])
                  => SplitLines(formattedCardList)[i]
                        = cardList[i].card_name \o <<" ", "(">> \o cardList[i].bank
                            \o <<")", ":", " ">> \o NoCashbackInfo

Succeeds(r) ==
    /\ r.kind = "response"
    /\ Ok(r.status)
    /\ r.body = "{choices: [{message: {content: JSON}}]}"

OneRequestEach ==
    \A i \in Calls :
        /\ pc[i] = "idle" => requests[i] = <<>>
        /\ pc[i] # "idle"
              => /\ Len(requests[i]) = 1
                 /\ requests[i][1].operation = op[i]
                 /\ requests[i][1].url = Endpoint
        /\ Done(i) => /\ settled[i].kind = (IF Succeeds(response[i])
                                            THEN "returned" ELSE "thrown")
        /\ ~Done(i) => settled[i] = NoSettlement

StateOf(i) == <<pc[i], op[i], requests[i], response[i], settled[i]>>

\* C10: every invocation of a remote operation issues exactly one request,
\* on every path; a failure is raised to the caller and the request is not
\* repeated; and a step of one invocation changes nothing of another.
C10_OneRequestNoSharing ==
    /\ []OneRequestEach
    /\ [][\E i \in Calls : \A j \in Calls \ {i} : StateOf(j)' = StateOf(j)]_vars
    /\ [][\A i \in Calls : requests[i] # <<>> => requests[i]' = requests[i]]_vars

C10_Witness ==
    \E i, j \in Calls :
        /\ Done(i) /\ Done(j)
        /\ settled[i].kind = "returned"
        /\ settled[j].kind = "thrown"
        /\ ~Ok(response[j].status) /\ response[j].kind = "response"
        /\ Len(requests[i]) = 1 /\ Len(requests[j]) = 1

StoredEntries == {i \in 1..Len(Items) : Stored(i)}
KeyOf(i) == CategoryKey(Items[i].category.v)
\* the last stored entry that derives the key of entry i
LastWithKeyOf(i) ==
    CHOOSE j \in StoredEntries :
        /\ KeyOf(j) = KeyOf(i)
        /\ \A k \in StoredEntries : KeyOf(k) = KeyOf(i) => k <= j

\* C11: entries that derive the same category key share a single entry of the
\* record, which carries the rate and description of the last of them; the
\* mapping has one key per derived key, so at most as many keys as there are
\* well-formed entries, and every key is at most 30 characters long.
C11_LastEntryWinsPerKey ==
    (Converted /\ outcome = "returned")
        => LET rates == result.cashback_categories
           IN /\ \A k, l \in 1..Len(rates) : rates[k].key = rates[l].key => k = l
              /\ {rates[k].key : k \in 1..Len(rates)} = {KeyOf(i) : i \in StoredEntries}
              /\ Len(rates) <= Cardinality(StoredEntries)
              /\ \A k \in 1..Len(rates) : Len(rates[k].key) <= KeyCap
              /\ \A i \in StoredEntries :
                    LET j == LastWithKeyOf(i)
                    IN Lookup(rates, KeyOf(i))
                          = [rate |-> RateOf(Items[j].rate.v),
                             description |-> Items[j].category.v \o <<" ", "-", " ">>
                                                 \o Items[j].rate.v]

\* two labels that differ only after the cut collapse into one 30-character
\* key that holds the second entry's rate and description
C11_Witness ==
    /\ Converted
    /\ outcome = "returned"
    /\ Len(Items) = 2
    /\ Items[1].category.v = LongLabel
    /\ Items[2].category.v = LongLabelToo
    /\ Slug(LongLabel) # Slug(LongLabelToo)
    /\ Len(result.cashback_categories) = 1
    /\ Len(result.cashback_categories[1].key) = KeyCap
    /\ result.cashback_categories[1].value.rate = Num(7, <<>>)
    /\ result.cashback_categories[1].value.description
          = LongLabelToo \o <<" ", "-", " ", "7", "%">>

====
